---- MODULE Spec2Model ----
(***************************************************************************)
(* PostLang: the compiler (parse, validate, generate, compile) of          *)
(* src/src/compiler.ts and the plain-text analyzer of src/src/analyzer.ts. *)
(*                                                                         *)
(* Strings are TLA+ strings; a character is a string of length 1 and       *)
(* positions are 1-based (JavaScript index i is position i + 1).  Lengths  *)
(* are counted in UTF-16 code units as String.prototype.length does.  The  *)
(* character written "~" stands for U+2600, a one-code-unit character of   *)
(* the emoji ranges.  An optional field (undefined in JavaScript) is the   *)
(* empty tuple << >> when absent and the one-element tuple <<v>> when set. *)
(*                                                                         *)
(* The string helpers are functions (f[s]) rather than operators so that   *)
(* an argument is evaluated once, when the function is applied.            *)
(***************************************************************************)
EXTENDS Integers, Sequences, FiniteSets, TLC

(***************************************************************************)
(* Characters and the character classes of the regular expressions.        *)
(***************************************************************************)
Ch(s, i) == SubSeq(s, i, i)

NL == "\n"

QUOTE == "\""

SUN == "~"

WhiteSpace == {" ", "\t"}

Digits == "0123456789"

UpperLetters == "ABCDEFGHIJKLMNOPQRSTUVWXYZ"

LowerLetters == "abcdefghijklmnopqrstuvwxyz"

CharsOf(s) == {Ch(s, i) : i \in 1..Len(s)}

DigitChar == CharsOf(Digits)

UpperChar == CharsOf(UpperLetters)

WordChar == UpperChar \cup CharsOf(LowerLetters) \cup DigitChar \cup {"_"}

Min(S) == CHOOSE x \in S : \A y \in S : x <= y

Max(S) == CHOOSE x \in S : \A y \in S : x >= y

\* F(v), with v evaluated once.
Let(v, F(_)) == CHOOSE r \in {F(x) : x \in {v}} : TRUE

\* The 1-based position of character c in the one-code-unit alphabet s.
IndexIn[s \in STRING, c \in STRING] == CHOOSE i \in 1..Len(s) : Ch(s, i) = c

\* String.prototype.repeat: n copies of s.
Rep[s \in STRING, n \in Nat] ==
  IF n = 0 THEN ""
  ELSE IF n = 1 THEN s
  ELSE Rep[s, n \div 2] \o Rep[s, n - (n \div 2)]

toLowerChar[c \in STRING] ==
  IF c \in UpperChar THEN Ch(LowerLetters, IndexIn[UpperLetters, c]) ELSE c

toLowerCase[s \in STRING] ==
  IF Len(s) = 0 THEN ""
  ELSE IF Len(s) = 1 THEN toLowerChar[s]
  ELSE toLowerCase[SubSeq(s, 1, Len(s) \div 2)]
         \o toLowerCase[SubSeq(s, (Len(s) \div 2) + 1, Len(s))]

\* String.prototype.includes
includes[s \in STRING, p \in STRING] ==
  \E i \in 1..(Len(s) - Len(p) + 1) : SubSeq(s, i, i + Len(p) - 1) = p

startsWith[s \in STRING, p \in STRING] == Len(s) >= Len(p) /\ SubSeq(s, 1, Len(p)) = p

endsWith[s \in STRING, p \in STRING] ==
  Len(s) >= Len(p) /\ SubSeq(s, Len(s) - Len(p) + 1, Len(s)) = p

\* String.prototype.trim
trim[s \in STRING] ==
  LET keep == {i \in 1..Len(s) : Ch(s, i) \notin WhiteSpace}
  IN IF keep = {} THEN "" ELSE SubSeq(s, Min(keep), Max(keep))

\* The number of occurrences of character c in s: (s.match(/c/g) || []).length
CountChar[s \in STRING, c \in STRING] == Cardinality({i \in 1..Len(s) : Ch(s, i) = c})

\* String.prototype.split on a one-character separator.
split[s \in STRING, sep \in STRING] ==
  LET at == {i \in 1..Len(s) : Ch(s, i) = sep}
  IN IF at = {} THEN <<s>>
     ELSE <<SubSeq(s, 1, Min(at) - 1)>> \o split[SubSeq(s, Min(at) + 1, Len(s)), sep]

\* Array.prototype.join
join[xs \in Seq(STRING), sep \in STRING] ==
  IF Len(xs) = 0 THEN ""
  ELSE IF Len(xs) = 1 THEN xs[1]
  ELSE join[SubSeq(xs, 1, Len(xs) \div 2), sep] \o sep
         \o join[SubSeq(xs, (Len(xs) \div 2) + 1, Len(xs)), sep]

\* parseInt(digits, 10) of a non-empty run of decimal digits.
parseInt[d \in STRING] ==
  IF Len(d) = 0 THEN 0
  ELSE 10 * parseInt[SubSeq(d, 1, Len(d) - 1)] + (IndexIn[Digits, Ch(d, Len(d))] - 1)

(***************************************************************************)
(* Pieces of the line grammars of parse.  Each returns where the piece     *)
(* ends so that the next piece starts there.                               *)
(***************************************************************************)
\* \s* from position i: the first position at or after i that is not whitespace.
SkipWs[s \in STRING, i \in Nat] ==
  LET stop == {j \in i..Len(s) : Ch(s, j) \notin WhiteSpace}
  IN IF stop = {} THEN Len(s) + 1 ELSE Min(stop)

\* The end of the maximal run of characters of class cls that starts at
\* position i (i - 1 when the run is empty).
RunEnd[s \in STRING, i \in Nat, cls \in SUBSET STRING] ==
  LET stop == {j \in i..Len(s) : Ch(s, j) \notin cls}
  IN IF stop = {} THEN Len(s) ELSE Min(stop) - 1

NoQuoted == [ok |-> FALSE, text |-> "", next |-> 0]

\* "([^"]+)" at position i: an opening quote, one or more characters that
\* are not quotes, and a closing quote.
Quoted[s \in STRING, i \in Nat] ==
  LET close == {j \in (i + 1)..Len(s) : Ch(s, j) = QUOTE}
  IN IF i <= Len(s) /\ Ch(s, i) = QUOTE /\ close # {} /\ Min(close) > i + 1
     THEN [ok |-> TRUE, text |-> SubSeq(s, i + 1, Min(close) - 1), next |-> Min(close) + 1]
     ELSE NoQuoted

\* /^X\s*"([^"]+)"/ for a one-character symbol X in position 1.
matchQuoted[line \in STRING] == Quoted[line, SkipWs[line, 2]]

\* /^\^\s*(\w+)\s*(\d+)/ : \w+ is greedy and gives characters back until
\* \s*(\d+) matches after it.
matchLimit[line \in STRING] ==
  LET start == SkipWs[line, 2]
      wend == RunEnd[line, start, WordChar]
      K == {k \in start..wend :
              /\ SkipWs[line, k + 1] <= Len(line)
              /\ Ch(line, SkipWs[line, k + 1]) \in DigitChar}
  IN IF K = {} THEN [ok |-> FALSE, key |-> "", value |-> 0]
     ELSE LET d == SkipWs[line, Max(K) + 1]
          IN [ok |-> TRUE,
              key |-> SubSeq(line, start, Max(K)),
              value |-> parseInt[SubSeq(line, d, RunEnd[line, d, DigitChar])]]

\* /^\+\s*([^|]+)\|\s*"([^"]+)"/ : the value is everything between the
\* symbol and the first bar (at least one character), trimmed by the caller.
matchEvidence[line \in STRING] ==
  LET bars == {j \in 2..Len(line) : Ch(line, j) = "|"}
      q == Quoted[line, SkipWs[line, Min(bars) + 1]]
  IN IF bars # {} /\ Min(bars) >= 3 /\ q.ok
     THEN [ok |-> TRUE, value |-> SubSeq(line, 2, Min(bars) - 1), context |-> q.text]
     ELSE [ok |-> FALSE, value |-> "", context |-> ""]

\* \s*\|\s*"([^"]+)" at position i.
BarQuoted[s \in STRING, i \in Nat] ==
  LET b == SkipWs[s, i]
  IN IF b <= Len(s) /\ Ch(s, b) = "|" THEN Quoted[s, SkipWs[s, b + 1]] ELSE NoQuoted

\* /^@\s*"([^"]+)"\s*\|\s*(\S+)\s*\|\s*"([^"]+)"/ : \S+ is greedy and gives
\* characters back until the bar and the quoted credibility match after it.
matchSource[line \in STRING] ==
  LET t == Quoted[line, SkipWs[line, 2]]
      b == SkipWs[line, t.next]
      u == SkipWs[line, b + 1]
      uend == RunEnd[line, u, CharsOf(line) \ WhiteSpace]
      K == {k \in u..uend : BarQuoted[line, k + 1].ok}
  IN IF t.ok /\ b <= Len(line) /\ Ch(line, b) = "|" /\ K # {}
     THEN [ok |-> TRUE, title |-> t.text, url |-> SubSeq(line, u, Max(K)),
           credibility |-> BarQuoted[line, Max(K) + 1].text]
     ELSE [ok |-> FALSE, title |-> "", url |-> "", credibility |-> ""]

(***************************************************************************)
(* Program constants.                                                      *)
(***************************************************************************)
LIMIT_KEYS == {"title", "claim", "evidence", "insight", "context", "total"}

DEFAULT_LIMITS ==
  [title |-> 80, claim |-> 150, evidence |-> 60, insight |-> 120,
   context |-> 100, total |-> 700]

BANNED_PHRASES ==
  <<"game-changer", "game changer", "revolutionary", "groundbreaking",
    "exciting", "thrilled", "delighted", "proud to announce",
    "thrilled to announce", "excited to share", "let me tell you",
    "here's the thing", "in today's world", "in this day and age",
    "at the end of the day", "it goes without saying", "needless to say",
    "leverage", "synergy", "paradigm shift", "disruptive",
    "innovative solution", "cutting-edge", "state-of-the-art",
    "best-in-class", "world-class", "next-level", "deep dive", "unpack",
    "circle back", "move the needle">>

\* The characters of the model's alphabet that EMOJI_REGEX / EMOJI_RE match.
EmojiChar == {SUN}

\* The 0-based indices of str at which the emoji character class matches.
EmojiIndices[str \in STRING] == {j - 1 : j \in {i \in 1..Len(str) : Ch(str, i) \in EmojiChar}}

\* RegExp.prototype.test of a regular expression with the g flag: the search
\* starts at lastIndex; a match leaves lastIndex after the match, a failure
\* resets it to 0.  len is the length of the string tested and indices the
\* indices at which the expression matches in it.
test(lastIndex, len, indices) ==
  LET from == {m \in indices : m >= lastIndex}
  IN IF lastIndex > len \/ from = {}
     THEN [found |-> FALSE, lastIndex |-> 0]
     ELSE [found |-> TRUE, lastIndex |-> Min(from) + 1]

(***************************************************************************)
(* PostLangCompiler.parse                                                  *)
(***************************************************************************)
None == << >>

Some(v) == <<v>>

IsSome(o) == Len(o) > 0

\* if (x) on an optional text: it is present and not the empty text.
Truthy(o) == IsSome(o) /\ o[1] # ""

EmptyAST ==
  [title |-> None, claim |-> None, evidence |-> << >>, insight |-> None,
   context |-> None, credential |-> None, source |-> None, limits |-> None]

ParseError(lineNum, what) ==
  "Line " \o ToString(lineNum) \o ": Invalid " \o what

\* if (firstChar === '^'): a matching directive creates ast.limits and sets
\* the key when it is one of the six names.
parseLimit(st, line) ==
  LET m == matchLimit[line]
      old == IF IsSome(st.ast.limits) THEN st.ast.limits[1] ELSE << >>
      key == toLowerCase[m.key]
  IN IF ~m.ok THEN st
     ELSE IF key \in LIMIT_KEYS
       THEN [st EXCEPT !.ast.limits = Some((key :> m.value) @@ old)]
       ELSE [st EXCEPT !.ast.limits = Some(old)]

\* A loop body that reports the lines the parser passes over.
parseLineStrict(st, line, lineNum) ==
  LET firstChar == Ch(line, 1)
      bad(what) == [st EXCEPT !.errors = Append(@, ParseError(lineNum, what))]
  IN IF line = "" \/ startsWith[line, "//"] THEN st
     ELSE IF firstChar = "^" THEN parseLimit(st, line)
     ELSE IF firstChar = "#" THEN
       LET m == matchQuoted[line]
       IN IF m.ok THEN [st EXCEPT !.ast.title = Some(m.text)]
          ELSE bad("title. Use # \"Your title\"")
     ELSE IF firstChar = "!" THEN
       LET m == matchQuoted[line]
       IN IF m.ok THEN [st EXCEPT !.ast.claim = Some(m.text)]
          ELSE bad("claim. Use ! \"Your claim\"")
     ELSE IF firstChar = "+" THEN
       LET m == matchEvidence[line]
       IN IF m.ok
          THEN [st EXCEPT !.ast.evidence =
                  Append(@, [value |-> trim[m.value], context |-> m.context])]
          ELSE bad("evidence. Use + value | \"context\"")
     ELSE IF firstChar = ">" THEN
       LET m == matchQuoted[line]
       IN IF m.ok THEN [st EXCEPT !.ast.insight = Some(m.text)]
          ELSE bad("insight. Use > \"Your insight\"")
     ELSE IF firstChar = "?" THEN
       LET m == matchQuoted[line]
       IN IF m.ok THEN [st EXCEPT !.ast.context = Some(m.text)]
          ELSE bad("context. Use ? \"Your context\"")
     ELSE IF firstChar = "*" THEN
       LET m == matchQuoted[line]
       IN IF m.ok THEN [st EXCEPT !.ast.credential = Some(m.text)]
          ELSE bad("credential. Use * \"Your credential\"")
     ELSE IF firstChar = "@" THEN
       LET m == matchSource[line]
       IN IF m.ok
          THEN [st EXCEPT !.ast.source =
                  Some([title |-> m.title, url |-> m.url,
                        credibility |-> Some(m.credibility)])]
          ELSE bad("source. Use @ \"Title\" | url | \"why this source is credible\"")
     ELSE bad("line")

\* The body of the loop of parse for the trimmed line with 1-based number
\* lineNum; st is [ast, errors].
parseLine(st, line, lineNum) ==
  LET firstChar == Ch(line, 1)
      bad(what) == [st EXCEPT !.errors = Append(@, ParseError(lineNum, what))]
  IN IF line = "" \/ startsWith[line, "//"] THEN st
     ELSE IF firstChar = "^" THEN parseLimit(st, line)
     ELSE IF firstChar = "#" THEN
       LET m == matchQuoted[line]
       IN IF m.ok THEN [st EXCEPT !.ast.title = Some(m.text)]
          ELSE bad("title. Use # \"Your title\"")
     ELSE IF firstChar = "!" THEN
       LET m == matchQuoted[line]
       IN IF m.ok THEN [st EXCEPT !.ast.claim = Some(m.text)]
          ELSE bad("claim. Use ! \"Your claim\"")
     ELSE IF firstChar = "+" THEN
       LET m == matchEvidence[line]
       IN IF m.ok
          THEN [st EXCEPT !.ast.evidence =
                  Append(@, [value |-> trim[m.value], context |-> m.context])]
          ELSE bad("evidence. Use + value | \"context\"")
     ELSE IF firstChar = ">" THEN
       LET m == matchQuoted[line]
       IN IF m.ok THEN [st EXCEPT !.ast.insight = Some(m.text)]
          ELSE bad("insight. Use > \"Your insight\"")
     ELSE IF firstChar = "?" THEN
       LET m == matchQuoted[line]
       IN IF m.ok THEN [st EXCEPT !.ast.context = Some(m.text)] ELSE st
     ELSE IF firstChar = "*" THEN
       LET m == matchQuoted[line]
       IN IF m.ok THEN [st EXCEPT !.ast.credential = Some(m.text)] ELSE st
     ELSE IF firstChar = "@" THEN
       LET m == matchSource[line]
       IN IF m.ok
          THEN [st EXCEPT !.ast.source =
                  Some([title |-> m.title, url |-> m.url,
                        credibility |-> Some(m.credibility)])]
          ELSE bad("source. Use @ \"Title\" | url | \"why this source is credible\"")
     ELSE st

RECURSIVE parseLinesAbort(_, _, _)
\* A loop that stops at the first bad line.
parseLinesAbort(st, lines, i) ==
  IF i > Len(lines) \/ Len(st.errors) > 0 THEN st
  ELSE Let(<<st, trim[lines[i]]>>,
           LAMBDA a : Let(parseLine(a[1], a[2], i),
                          LAMBDA next : parseLinesAbort(next, lines, i + 1)))

RECURSIVE parseLines(_, _, _)
\* The loop of parse over lines[i..]: const line = lines[i].trim(), then
\* the body of the loop, line after line.
parseLines(st, lines, i) ==
  IF i > Len(lines) THEN st
  ELSE Let(<<st, trim[lines[i]]>>,
           LAMBDA a : Let(parseLine(a[1], a[2], i),
                          LAMBDA next : parseLines(next, lines, i + 1)))

\* The evidence items without the repeated ones.
RECURSIVE Deduplicated(_)
Deduplicated(items) ==
  IF items = << >> THEN << >>
  ELSE <<Head(items)>> \o SelectSeq(Deduplicated(Tail(items)), LAMBDA x : x # Head(items))

\* A parse that keeps one item of each evidence line.
parseDeduplicated(source) ==
  Let(split[source, NL],
      LAMBDA lines :
        Let(parseLines([ast |-> EmptyAST, errors |-> << >>], lines, 1),
            LAMBDA st : [st EXCEPT !.ast.evidence = Deduplicated(@)]))

parse(source) ==
  Let(split[source, NL],
      LAMBDA lines : parseLines([ast |-> EmptyAST, errors |-> << >>], lines, 1))

(***************************************************************************)
(* PostLangCompiler.validate                                               *)
(***************************************************************************)
\* The spread with its operands exchanged: the defaults override the
\* configured limits.
effectiveLimitsDefaultsLast(ast) ==
  IF IsSome(ast.limits) THEN DEFAULT_LIMITS @@ ast.limits[1] ELSE DEFAULT_LIMITS

\* const limits = { ...DEFAULT_LIMITS, ...ast.limits }
effectiveLimits(ast) ==
  IF IsSome(ast.limits) THEN ast.limits[1] @@ DEFAULT_LIMITS ELSE DEFAULT_LIMITS

Exceeds(symbol, limit, has) ==
  symbol \o " exceeds " \o ToString(limit) \o " chars (has " \o ToString(has) \o ")"

\* The required-field checks without the one of the source.
requiredErrorsSourceUnchecked(ast) ==
  (IF ~Truthy(ast.title) THEN <<"Missing # (title)">> ELSE << >>)
    \o (IF ~Truthy(ast.claim) THEN <<"Missing ! (claim)">> ELSE << >>)
    \o (IF Len(ast.evidence) = 0 THEN <<"Missing + (evidence)">> ELSE << >>)
    \o (IF ~Truthy(ast.insight) THEN <<"Missing > (insight)">> ELSE << >>)

requiredErrors(ast) ==
  (IF ~Truthy(ast.title) THEN <<"Missing # (title)">> ELSE << >>)
    \o (IF ~Truthy(ast.claim) THEN <<"Missing ! (claim)">> ELSE << >>)
    \o (IF Len(ast.evidence) = 0 THEN <<"Missing + (evidence)">> ELSE << >>)
    \o (IF ~Truthy(ast.insight) THEN <<"Missing > (insight)">> ELSE << >>)
    \o (IF ~IsSome(ast.source) THEN <<"Missing @ (source)">> ELSE << >>)

titleErrors(ast, limits) ==
  IF ~Truthy(ast.title) THEN << >>
  ELSE LET title == ast.title[1]
       IN (IF Len(title) > limits.title
             THEN <<Exceeds("#", limits.title, Len(title))>> ELSE << >>)
            \o (IF endsWith[title, "?"] THEN <<"# cannot be a question">> ELSE << >>)
            \o (IF includes[title, "!"]
                  THEN <<"# cannot contain exclamation marks">> ELSE << >>)

claimErrors(ast, limits) ==
  IF Truthy(ast.claim) /\ Len(ast.claim[1]) > limits.claim
  THEN <<Exceeds("!", limits.claim, Len(ast.claim[1]))>> ELSE << >>

\* The check of evidence item i (1-based).
evidenceItemError(evidence, i, limit) ==
  LET evText == evidence[i].value \o " " \o evidence[i].context
  IN IF Len(evText) > limit
     THEN <<Exceeds("+ item " \o ToString(i), limit, Len(evText))>>
     ELSE << >>

RECURSIVE evidenceItemErrors(_, _, _)
\* The loop over the evidence items from item i on.
evidenceItemErrors(evidence, i, limit) ==
  IF i > Len(evidence) THEN << >>
  ELSE evidenceItemError(evidence, i, limit) \o evidenceItemErrors(evidence, i + 1, limit)

\* The count check off by one: five items are already too many.
evidenceErrorsFromFive(ast, limits) ==
  (IF Len(ast.evidence) >= 5 THEN <<"+ limited to 5 items maximum">> ELSE << >>)
    \o evidenceItemErrors(ast.evidence, 1, limits.evidence)

evidenceErrors(ast, limits) ==
  (IF Len(ast.evidence) > 5 THEN <<"+ limited to 5 items maximum">> ELSE << >>)
    \o evidenceItemErrors(ast.evidence, 1, limits.evidence)

insightErrors(ast, limits) ==
  IF Truthy(ast.insight) /\ Len(ast.insight[1]) > limits.insight
  THEN <<Exceeds(">", limits.insight, Len(ast.insight[1]))>> ELSE << >>

contextWarnings(ast, limits) ==
  IF Truthy(ast.context) /\ Len(ast.context[1]) > limits.context
  THEN <<Exceeds("?", limits.context, Len(ast.context[1]))>> ELSE << >>

\* The scanned fields with the credential among them.
scannedFieldsAndCredential(ast) ==
  SelectSeq(ast.title \o ast.claim \o ast.insight \o ast.context \o ast.credential
              \o [i \in 1..Len(ast.evidence) |-> ast.evidence[i].context],
            LAMBDA t : t # "")

\* The fields the style checks scan:
\* [title, claim, insight, context, ...evidence contexts].filter(Boolean)
scannedFields(ast) ==
  SelectSeq(ast.title \o ast.claim \o ast.insight \o ast.context
              \o [i \in 1..Len(ast.evidence) |-> ast.evidence[i].context],
            LAMBDA t : t # "")

\* scannedFields.join(' ').toLowerCase()
allTextOf(ast) == toLowerCase[join[scannedFields(ast), " "]]

bannedErrors(allText) ==
  LET hit == SelectSeq(BANNED_PHRASES, LAMBDA p : includes[allText, toLowerCase[p]])
  IN [i \in 1..Len(hit) |-> "Banned phrase: \"" \o hit[i] \o "\""]

exclamationErrors(allText) ==
  LET exclamationCount == CountChar[allText, "!"]
  IN IF exclamationCount > 0
     THEN <<"Exclamation marks not allowed (found " \o ToString(exclamationCount) \o ")">>
     ELSE << >>

\* The checks of validate on the text allText of the scanned fields, but
\* for the emoji test.
styleRules(ast, limits, allText) ==
  [before |-> requiredErrors(ast) \o titleErrors(ast, limits)
                \o claimErrors(ast, limits) \o evidenceErrors(ast, limits)
                \o insightErrors(ast, limits),
   warnings |-> contextWarnings(ast, limits),
   len |-> Len(allText),
   emoji |-> EmojiIndices[allText],
   after |-> bannedErrors(allText) \o exclamationErrors(allText)]

\* Every check of validate but the emoji test, whose outcome depends on
\* EMOJI_REGEX.lastIndex: the errors pushed before it, those pushed after
\* it, the warnings, and the length and the emoji positions of the text
\* the emoji test is applied to.
validateRules(ast) ==
  Let(<<effectiveLimits(ast), allTextOf(ast)>>,
      LAMBDA a : styleRules(ast, a[1], a[2]))

(***************************************************************************)
(* PostLangCompiler.generate                                               *)
(***************************************************************************)
\* A template literal renders an undefined value as the text "undefined".
Render(o) == IF IsSome(o) THEN o[1] ELSE "undefined"

\* url.replace(/^https?:\/\//, '').replace(/^www\./, '')
displayUrlOf[url \in STRING] ==
  LET a == IF startsWith[url, "https://"] THEN SubSeq(url, 9, Len(url))
           ELSE IF startsWith[url, "http://"] THEN SubSeq(url, 8, Len(url))
           ELSE url
  IN IF startsWith[a, "www."] THEN SubSeq(a, 5, Len(a)) ELSE a

\* generate is applied to documents whose title, claim, insight and source
\* are present (on others the code reads a property of undefined).
generate(ast) ==
  join[<<ast.title[1] \o ".", "">>
         \o (IF Truthy(ast.context) THEN <<ast.context[1], "">> ELSE << >>)
         \o <<ast.claim[1] \o ".", "">>
         \o (IF Len(ast.evidence) > 0
               THEN <<"Results:">>
                      \o [i \in 1..Len(ast.evidence) |->
                            "- " \o ast.evidence[i].value \o " " \o ast.evidence[i].context]
                      \o <<"">>
               ELSE << >>)
         \o <<ast.insight[1] \o ".", "">>
         \o (IF Truthy(ast.credential)
               THEN <<"[" \o ast.credential[1] \o "]", "">> ELSE << >>)
         \o <<"Source: " \o ast.source[1].title,
              "[" \o Render(ast.source[1].credibility) \o "]",
              displayUrlOf[ast.source[1].url]>>,
       NL]

(***************************************************************************)
(* PostLangAnalyzer.analyze                                                *)
(***************************************************************************)
BulletChar == {"-", "*"}

\* /\d+%|\d+x|\d+\.\d+/.test(line)
evidencePattern[line \in STRING] ==
  \E i \in 1..(Len(line) - 1) :
    /\ Ch(line, i) \in DigitChar
    /\ \/ Ch(line, i + 1) \in {"%", "x"}
       \/ Ch(line, i + 1) = "." /\ i + 2 <= Len(line) /\ Ch(line, i + 2) \in DigitChar

\* /^[-...*]\s/.test(line)
bulletPattern[line \in STRING] ==
  Len(line) >= 2 /\ Ch(line, 1) \in BulletChar /\ Ch(line, 2) \in WhiteSpace

URL_PATTERNS == {"http://", "https://", "arxiv.org", "github.com", "source:"}

\* /https?:\/\/|arxiv\.org|github\.com|Source:/i.test(s)
urlPattern[s \in STRING] ==
  \E p \in URL_PATTERNS : includes[toLowerCase[s], p]

\* The facts the checks of analyze rest on, each computed once: the
\* non-blank lines, the trimmed first line, the evidence count, whether a
\* source is detected, the lines that are neither tags nor sources, the
\* banned phrases found and the number of exclamation marks.
analyzeFacts(text) ==
  Let(SelectSeq(split[text, NL], LAMBDA l : trim[l] # ""),
      LAMBDA lines :
        [lines |-> Len(lines),
         firstLine |-> IF Len(lines) > 0 THEN trim[lines[1]] ELSE "",
         evidenceCount |->
           Len(SelectSeq(lines, LAMBDA l : evidencePattern[l] \/ bulletPattern[trim[l]])),
         hasSource |-> urlPattern[text],
         nonTagLines |->
           Len(SelectSeq(lines, LAMBDA l : ~startsWith[l, "#"] /\ ~urlPattern[l])),
         banned |-> SelectSeq(BANNED_PHRASES, LAMBDA p : includes[toLowerCase[text], p]),
         exclamationCount |-> CountChar[text, "!"],
         len |-> Len(text),
         emoji |-> EmojiIndices[text]])

\* The score lost on the evidence count when a single item costs nothing.
evidencePenaltyOneItemFree(evidenceCount) == IF evidenceCount = 0 THEN 20 ELSE 0

\* The score lost on the evidence count: none is an issue, one a warning.
evidencePenalty(evidenceCount) ==
  IF evidenceCount = 0 THEN 20 ELSE IF evidenceCount < 2 THEN 5 ELSE 0

\* The checks of analyze, but for the emoji test, on these facts.
analyzeChecks(f) ==
  LET noLines == f.lines = 0
      tooLong == Len(f.firstLine) > 100
      noEvidence == f.evidenceCount = 0
      noClaim == f.lines < 2
      noInsight == f.nonTagLines < 3
      question == endsWith[f.firstLine, "?"]
      long == f.len > 1300
  IN [structure |->
        [hasTitle |-> Len(f.firstLine) > 0 /\ ~tooLong, hasClaim |-> ~noClaim,
         hasEvidence |-> ~noEvidence, evidenceCount |-> f.evidenceCount,
         hasInsight |-> ~noInsight, hasSource |-> f.hasSource],
      before |->
        (IF tooLong THEN <<"First line too long for a title (>100 chars)">> ELSE << >>)
          \o (IF noLines THEN <<"No title detected">> ELSE << >>)
          \o (IF noEvidence THEN <<"No evidence/data points detected">> ELSE << >>)
          \o (IF ~f.hasSource THEN <<"No source/attribution detected">> ELSE << >>)
          \o (IF noClaim THEN <<"Post too short - no clear claim detected">> ELSE << >>)
          \o [i \in 1..Len(f.banned) |->
                "Contains banned phrase: \"" \o f.banned[i] \o "\""],
      after |->
        (IF f.exclamationCount > 0
           THEN <<"Contains " \o ToString(f.exclamationCount) \o " exclamation mark(s)">>
           ELSE << >>)
          \o (IF question THEN <<"Title is a question (avoid clickbait)">> ELSE << >>),
      warnings |->
        (IF ~noEvidence /\ f.evidenceCount < 2
           THEN <<"Only 1 evidence point - consider adding more">> ELSE << >>)
          \o (IF noInsight THEN <<"No clear insight/takeaway detected">> ELSE << >>)
          \o (IF long
                THEN <<"Post is long (" \o ToString(f.len) \o " chars) - consider trimming">>
                ELSE << >>),
      suggestions |->
        (IF noEvidence
           THEN <<"Add specific numbers or percentages to support claims">> ELSE << >>)
          \o (IF ~f.hasSource THEN <<"Add a source URL or citation">> ELSE << >>)
          \o (IF noInsight
                THEN <<"Add a concluding insight before the source">> ELSE << >>),
      penalty |->
        (IF tooLong THEN 10 ELSE 0) + (IF noLines THEN 15 ELSE 0)
          + evidencePenalty(f.evidenceCount)
          + (IF ~f.hasSource THEN 15 ELSE 0) + (IF noClaim THEN 10 ELSE 0)
          + (IF noInsight THEN 5 ELSE 0) + 10 * Len(f.banned)
          + f.exclamationCount * 5 + (IF question THEN 10 ELSE 0)
          + (IF long THEN 5 ELSE 0),
      len |-> f.len,
      emoji |-> f.emoji]

\* Every check of analyze but the emoji test, whose outcome depends on
\* EMOJI_RE.lastIndex.
analyzeRules(text) == Let(analyzeFacts(text), LAMBDA f : analyzeChecks(f))

(***************************************************************************)
(* The source texts, documents and plain texts the operations are applied  *)
(* to.                                                                     *)
(***************************************************************************)
\* The largest number of evidence lines of a source.
MaxEvidence == 6

Q(s) == QUOTE \o s \o QUOTE

\* The field texts of the post of the README: an empty context or
\* credential means the source has no such line, an empty credibility that
\* the source line has two segments only.
Base ==
  [title |-> "Title", claim |-> "Claim", value |-> "10%", evContext |-> "improvement",
   insight |-> "Insight", context |-> "", credential |-> "", srcTitle |-> "Source",
   url |-> "https://example.com", credibility |-> "peer reviewed"]

TextFields == DOMAIN Base

\* The source text with the directive lines dirs first, then one line per
\* field of f that is not in omit, with n copies of the evidence line.
Source(dirs, f, n, omit) ==
  join[dirs
         \o (IF "title" \in omit THEN << >> ELSE <<"# " \o Q(f.title)>>)
         \o (IF f.context = "" THEN << >> ELSE <<"? " \o Q(f.context)>>)
         \o (IF "claim" \in omit THEN << >> ELSE <<"! " \o Q(f.claim)>>)
         \o [i \in 1..n |-> "+ " \o f.value \o " | " \o Q(f.evContext)]
         \o (IF "insight" \in omit THEN << >> ELSE <<"> " \o Q(f.insight)>>)
         \o (IF f.credential = "" THEN << >> ELSE <<"* " \o Q(f.credential)>>)
         \o (IF "source" \in omit THEN << >>
             ELSE <<"@ " \o Q(f.srcTitle) \o " | " \o f.url
                      \o (IF f.credibility = "" THEN "" ELSE " | " \o Q(f.credibility))>>),
       NL]

Directive(key, value) == "^ " \o key \o " " \o ToString(value)

\* The minimal valid post of docs/SPEC.md: a two-segment source line.
MinimalSource == Source(<< >>, [Base EXCEPT !.credibility = ""], 1, {})

\* The same post with a credibility segment.
ValidSource == Source(<< >>, Base, 1, {})

\* Every subset of the five required elements left out.
RequiredSources ==
  {Source(<< >>, Base, IF "evidence" \in o THEN 0 ELSE 1, o) :
     o \in SUBSET {"title", "claim", "evidence", "insight", "source"}}

\* 0 to MaxEvidence evidence lines, under the default and under configured limits.
EvidenceSources ==
  {Source(d, Base, n, {}) :
     n \in 0..MaxEvidence, d \in {<< >>, <<Directive("evidence", 7), Directive("total", 5)>>}}

\* An emoji, an exclamation mark or a banned phrase put into one field.
Injected == {SUN, "!", "game-changer", " GAME-Changer"}

InjectedSources ==
  {Source(<< >>, [Base EXCEPT ![k] = @ \o t], 1, {}) : k \in TextFields, t \in Injected}
    \cup {Source(<< >>, [Base EXCEPT !.title = @ \o SUN \o SUN], 1, {})}

\* One field one character longer than its default limit, under no
\* directive, directives naming its key, and a directive naming no key.
OverLimit(key) ==
  LET over == Rep["a", DEFAULT_LIMITS[key] + 1]
  IN CASE key = "title" -> [Base EXCEPT !.title = over]
       [] key = "claim" -> [Base EXCEPT !.claim = over]
       [] key = "insight" -> [Base EXCEPT !.insight = over]
       [] key = "context" -> [Base EXCEPT !.context = over]
       [] key = "evidence" ->
            [Base EXCEPT !.evContext = Rep["a", DEFAULT_LIMITS[key] - Len(Base.value)]]

OverLimitDirectives(k) ==
  {<< >>, <<Directive(k, DEFAULT_LIMITS[k] + 1)>>,
   <<Directive(k, DEFAULT_LIMITS[k] + 1), Directive(k, DEFAULT_LIMITS[k])>>,
   <<Directive("foo", 10)>>}

OverLimitSources ==
  UNION {{Source(d, OverLimit(k), 1, {}) : d \in OverLimitDirectives(k)} :
           k \in LIMIT_KEYS \ {"total"}}

\* A post whose output is longer than 500 and shorter than 700 characters
\* (three evidence items) or longer than 700 (five): every field as long as
\* its default limit allows.
Full ==
  [Base EXCEPT !.title = Rep["a", DEFAULT_LIMITS.title],
               !.claim = Rep["b", DEFAULT_LIMITS.claim],
               !.insight = Rep["c", DEFAULT_LIMITS.insight],
               !.evContext = Rep["d", DEFAULT_LIMITS.evidence - Len(Base.value) - 1]]

TotalSources ==
  {Source(d, Full, 3, {}) :
     d \in {<< >>, <<Directive("total", 500)>>, <<Directive("foo", 10)>>,
            <<Directive("total", 500), Directive("total", 700)>>,
            <<Directive("total", 700), Directive("total", 500)>>,
            <<"^ TOTAL 500">>, <<"^ total500">>, <<"^ total five">>}}
    \cup {Source(d, Full, 5, {}) : d \in {<< >>, <<Directive("total", 800)>>}}

\* A banned phrase that lies in no field but across the title and the
\* claim, and in the credential.
StraddleSource ==
  Source(<< >>, [Base EXCEPT !.title = @ \o " game", !.claim = "changer " \o @,
                             !.credential = "game changer"], 1, {})

\* Sources with lines that fail their grammar: alone, among blank and
\* comment lines, several of them, with valid lines before and after, and
\* with an emoji in a valid line.
BrokenSources ==
  {join[<<"# " \o Q("Title" \o SUN), "! Claim">>, NL],
   join[<<"", "// a comment", "# Title", "", "! " \o Q("Claim"), "+ 10% improvement",
          "  > Insight", "> " \o Q("Insight"), "@ " \o Q("Source"), "#">>, NL],
   join[<<"# " \o Q("Title"), "! " \o Q(""), "+ 10% | " \o Q("improvement"),
          "+ | " \o Q("improvement"), "> " \o Q("Insight"),
          "@ " \o Q("Source") \o " | https://example.com | " \o Q("peer reviewed")>>, NL]}

\* The post of the README among lines the parser passes over: '?' and '*'
\* lines that fail their grammar (one after a valid '?' line), and lines
\* that begin with no directive symbol.
IgnoredSources ==
  {join[<<"Hello world", "# " \o Q("Title"), "? " \o Q("Context"), "? no quotes",
          "! " \o Q("Claim"), "- 10% | " \o Q("a bullet"), "+ 10% | " \o Q("improvement"),
          "*", "> " \o Q("Insight"), "  " \o Q("# Quoted"),
          "@ " \o Q("Source") \o " | https://example.com | " \o Q("peer reviewed"),
          "? " \o Q(""), "$ # " \o Q("Other")>>, NL],
   join[<<"* " \o Q("Engineer"), "* Engineer", "? " \o QUOTE \o "Context", "#hashtag",
          "= ! " \o Q("Claim")>>, NL]}

\* The otherwise-valid post whose title is a question with a banned phrase,
\* and a post that breaks many rules at once: no source, a title that is a
\* question with an exclamation mark and a banned phrase, a claim over its
\* limit, six evidence items over theirs, and an emoji in the insight.
QuestionSource == Source(<< >>, [Base EXCEPT !.title = "Is this a game changer?"], 1, {})

ManyViolationsSource ==
  Source(<<Directive("claim", 4), Directive("evidence", 10)>>,
         [Base EXCEPT !.title = "Is this a game changer!?", !.insight = "Insight" \o SUN],
         6, {"source"})

\* A context of 7 characters under a context limit of 5 (over) and of 7
\* (at the limit): in a valid post, in a post without a source, and in a
\* post whose output is over its total limit.
ContextSources ==
  {Source(<<Directive("context", n)>> \o d, [Base EXCEPT !.context = "Context"], 1, o) :
     n \in {5, 7}, d \in {<< >>, <<Directive("total", 50)>>}, o \in {{}, {"source"}}}

\* The post of the README, whose output has 96 characters, under a total
\* limit one below, at and one above that length.
BoundarySources == {Source(<<Directive("total", n)>>, Base, 1, {}) : n \in {95, 96, 97}}

\* The post of the README with a context, a credential and three evidence
\* items, under URLs with and without a scheme and a leading 'www.'.
UrlSources ==
  {Source(<< >>, [Base EXCEPT !.url = u, !.context = "Context", !.credential = "Engineer"], 3, {}) :
     u \in {"http://www.example.com/www.a", "https://www.example.com", "www.example.com",
            "example.com/http://b", "ftp://www.example.com"}}

\* The post of the README under directives whose number is zero.
ZeroLimitSources ==
  {Source(d, Base, 1, {}) :
     d \in {<<Directive("title", 0)>>, <<Directive("total", 0), Directive("foo", 0)>>,
            <<"^ evidence 00">>}}

\* Directives repeated and out of order: two titles around a title line
\* that fails its grammar, the same evidence line three times among others,
\* two claims, insights, contexts, credentials and sources.
RepeatedSources ==
  {join[<<"@ " \o Q("First") \o " | http://a.org | " \o Q("old"),
          "+ 10% | " \o Q("improvement"), "> " \o Q("Insight one"),
          "# " \o Q("Title one"), "* " \o Q("Engineer"), "! " \o Q("Claim one"),
          "+ 2x | " \o Q("faster"), "? " \o Q("Context one"), "# " \o Q("Title two"),
          "# Title three", "+ 10% | " \o Q("improvement"), "! " \o Q("Claim two"),
          "? " \o Q("Context two"), "? Context three", "+ 10% | " \o Q("improvement"),
          "* " \o Q("Researcher"), "> " \o Q("Insight two"),
          "@ " \o Q("Second") \o " | https://b.org | " \o Q("new"), "@ " \o Q("Third")>>, NL],
   join[<<"+ 2x | " \o Q("faster"), "+ 10% | " \o Q("improvement"), "+ 2x | " \o Q("faster"),
          "# " \o Q("Title"), "# " \o Q("Title")>>, NL]}

\* A banned phrase that lies in no field of the post but across two of
\* them: the title ends in 'game' and the claim begins with 'changer'; the
\* insight ends in 'deep' and the first evidence context begins with 'dive'.
AcrossFieldsSources ==
  {Source(<< >>, [Base EXCEPT !.title = "A new game", !.claim = "Changer of habits"], 1, {}),
   Source(<< >>, [Base EXCEPT !.insight = "It runs deep", !.evContext = "dive times"], 2, {})}

Sources ==
  {MinimalSource, ValidSource, StraddleSource} \cup RequiredSources
    \cup EvidenceSources \cup InjectedSources \cup OverLimitSources \cup TotalSources
    \cup BrokenSources \cup IgnoredSources \cup {QuestionSource, ManyViolationsSource}
    \cup ContextSources \cup BoundarySources \cup UrlSources
    \cup ZeroLimitSources \cup RepeatedSources \cup AcrossFieldsSources

\* The parse of every source, computed once.
Parsed == [s \in Sources |-> parse(s)]

\* The document of the minimal valid post: a source without credibility.
MinimalDoc ==
  [EmptyAST EXCEPT
     !.title = Some(Base.title), !.claim = Some(Base.claim),
     !.evidence = <<[value |-> Base.value, context |-> Base.evContext]>>,
     !.insight = Some(Base.insight),
     !.source = Some([title |-> Base.srcTitle, url |-> Base.url, credibility |-> None])]

\* The documents validate and generate are applied to: those parse builds
\* and the document of the minimal valid post.
Documents == {Parsed[s].ast : s \in Sources} \cup {MinimalDoc}

\* The documents generate can render: the fields it dereferences are present.
Renderable ==
  {d \in Documents :
     IsSome(d.title) /\ IsSome(d.claim) /\ IsSome(d.insight) /\ IsSome(d.source)}

\* validateRules and generate of every document, computed once.
Rules == [d \in Documents |-> validateRules(d)]

Generated == [d \in Renderable |-> generate(d)]

\* The plain texts analyze is applied to: everything generate renders, and
\* texts that are no post.
Texts ==
  {Generated[d] : d \in Renderable}
    \cup {"", "Title", "Is it exciting?!" \o SUN \o "\n#tag 1.5\nhttp://x",
          SUN \o "x" \o SUN, "- a\n- b\nc\nd\nSource: e", Rep["a", 101] \o "\n1.5x",
          Rep[Rep["word ", 18] \o NL, 15] \o "2x 3% github.com",
          Rep["!", 21], "Thrilled to announce a revolutionary game-changer!!!!!?"}

Analyzed == [t \in Texts |-> analyzeRules(t)]

(***************************************************************************)
(* validate, compile and analyze, given the lastIndex of the emoji regular *)
(* expression they test with; each returns the lastIndex it leaves.        *)
(***************************************************************************)
\* The result of validate, given the outcome t of the emoji test.
validateResult(r, t) ==
  [errors |-> r.before
                \o (IF t.found THEN <<"Emojis are not allowed">> ELSE << >>)
                \o r.after,
   warnings |-> r.warnings,
   lastIndex |-> t.lastIndex]

validate(ast, reLastIndex) ==
  Let(Rules[ast], LAMBDA r : validateResult(r, test(reLastIndex, r.len, r.emoji)))

Failure(errors, warnings) ==
  [success |-> FALSE, output |-> None, errors |-> errors, warnings |-> warnings]

\* A total-length check that reports the excess and still returns the text.
compileGeneratedKeepsOutput(v, output, total) ==
  IF Len(output) > total
  THEN [result |-> [success |-> FALSE, output |-> Some(output),
                    errors |-> <<"Output" \o Exceeds("", total, Len(output))>>,
                    warnings |-> v.warnings],
        lastIndex |-> v.lastIndex]
  ELSE [result |-> [success |-> TRUE, output |-> Some(output),
                    errors |-> << >>, warnings |-> v.warnings],
        lastIndex |-> v.lastIndex]

\* A total-length check that also rejects an output of exactly the limit.
compileGeneratedAtLimit(v, output, total) ==
  IF Len(output) >= total
  THEN [result |-> Failure(<<"Output" \o Exceeds("", total, Len(output))>>, v.warnings),
        lastIndex |-> v.lastIndex]
  ELSE [result |-> [success |-> TRUE, output |-> Some(output),
                    errors |-> << >>, warnings |-> v.warnings],
        lastIndex |-> v.lastIndex]

\* if (output.length > limits.total) ... else success
compileGenerated(v, output, total) ==
  IF Len(output) > total
  THEN [result |-> Failure(<<"Output" \o Exceeds("", total, Len(output))>>, v.warnings),
        lastIndex |-> v.lastIndex]
  ELSE [result |-> [success |-> TRUE, output |-> Some(output),
                    errors |-> << >>, warnings |-> v.warnings],
        lastIndex |-> v.lastIndex]

\* A compile that returns the warnings only when it succeeds.
compileValidatedNoWarnings(ast, v) ==
  IF Len(v.errors) > 0
  THEN [result |-> Failure(v.errors, << >>), lastIndex |-> v.lastIndex]
  ELSE compileGenerated(v, Generated[ast], effectiveLimits(ast).total)

\* if (validation.errors.length > 0) ... else generate
compileValidated(ast, v) ==
  IF Len(v.errors) > 0
  THEN [result |-> Failure(v.errors, v.warnings), lastIndex |-> v.lastIndex]
  ELSE compileGenerated(v, Generated[ast], effectiveLimits(ast).total)

\* compile that runs the validator whatever parse reported and returns the
\* errors of both.
compileParsedMixed(p, reLastIndex) ==
  Let(validate(p.ast, reLastIndex),
      LAMBDA v :
        IF Len(p.errors) > 0
        THEN [result |-> Failure(p.errors \o v.errors, v.warnings),
              lastIndex |-> v.lastIndex]
        ELSE compileValidated(p.ast, v))

\* if (errors.length > 0) ... else validate
compileParsed(p, reLastIndex) ==
  IF Len(p.errors) > 0
  THEN [result |-> Failure(p.errors, << >>), lastIndex |-> reLastIndex]
  ELSE Let(validate(p.ast, reLastIndex), LAMBDA v : compileValidated(p.ast, v))

compile(source, reLastIndex) ==
  Let(Parsed[source], LAMBDA p : compileParsed(p, reLastIndex))

\* index.ts validate(source), after parse.
validateSourceParsed(p, reLastIndex) ==
  IF Len(p.errors) > 0
  THEN [result |-> [valid |-> FALSE, errors |-> p.errors, warnings |-> << >>],
        lastIndex |-> reLastIndex]
  ELSE Let(validate(p.ast, reLastIndex),
           LAMBDA v : [result |-> [valid |-> Len(v.errors) = 0, errors |-> v.errors,
                                   warnings |-> v.warnings],
                       lastIndex |-> v.lastIndex])

\* index.ts validate(source)
validateSource(source, reLastIndex) ==
  Let(Parsed[source], LAMBDA p : validateSourceParsed(p, reLastIndex))

\* A score that is not brought back into [0, 100].
ClampUnbounded(score) == score

Clamp(score) == IF score < 0 THEN 0 ELSE IF score > 100 THEN 100 ELSE score

\* The result of analyze, given the outcome t of the emoji test.
analyzeResult(r, t) ==
  [result |->
     [valid |-> Len(r.before) = 0 /\ ~t.found /\ Len(r.after) = 0,
      score |-> Clamp(100 - r.penalty - (IF t.found THEN 10 ELSE 0)),
      structure |-> r.structure,
      issues |-> r.before \o (IF t.found THEN <<"Contains emojis">> ELSE << >>)
                   \o r.after,
      warnings |-> r.warnings,
      suggestions |-> r.suggestions],
   lastIndex |-> t.lastIndex]

analyze(text, reLastIndex) ==
  Let(Analyzed[text], LAMBDA r : analyzeResult(r, test(reLastIndex, r.len, r.emoji)))

(***************************************************************************)
(* The state: the lastIndex of the two module-level regular expressions,   *)
(* the last call made (operation, argument, result, and the lastIndex its   *)
(* expression had when the call began), and the result of the              *)
(* call before it when that call was the same operation on the same        *)
(* argument.                                                               *)
(***************************************************************************)
VARIABLES EMOJI_REGEX, EMOJI_RE, call, prev

vars == <<EMOJI_REGEX, EMOJI_RE, call, prev>>

Init ==
  /\ EMOJI_REGEX = 0
  /\ EMOJI_RE = 0
  /\ call = [op |-> "none", arg |-> "", result |-> "", lastIndex |-> 0]
  /\ prev = None

\* The call made, with the lastIndex its emoji expression had when it began.
Record(op, arg, result) ==
  /\ call' = [op |-> op, arg |-> arg, result |-> result,
              lastIndex |-> IF op = "analyze" THEN EMOJI_RE ELSE EMOJI_REGEX]
  /\ prev' = IF call.op = op /\ call.arg = arg THEN Some(call.result) ELSE None

\* postlang.parse(source)
Parse(source) ==
  /\ Record("parse", source, Parsed[source])
  /\ UNCHANGED <<EMOJI_REGEX, EMOJI_RE>>

\* postlang.validate(ast)
Validate(ast) ==
  \E v \in {validate(ast, EMOJI_REGEX)} :
     /\ Record("validate", ast, [errors |-> v.errors, warnings |-> v.warnings])
     /\ EMOJI_REGEX' = v.lastIndex
     /\ UNCHANGED EMOJI_RE

\* postlang.generate(ast)
Generate(ast) ==
  /\ Record("generate", ast, Generated[ast])
  /\ UNCHANGED <<EMOJI_REGEX, EMOJI_RE>>

\* postlang.compile(source)
Compile(source) ==
  \E c \in {compile(source, EMOJI_REGEX)} :
     /\ Record("compile", source, c.result)
     /\ EMOJI_REGEX' = c.lastIndex
     /\ UNCHANGED EMOJI_RE

\* validate(source) of index.ts
ValidateSource(source) ==
  \E v \in {validateSource(source, EMOJI_REGEX)} :
     /\ Record("validateSource", source, v.result)
     /\ EMOJI_REGEX' = v.lastIndex
     /\ UNCHANGED EMOJI_RE

\* analyzer.analyze(text)
Analyze(text) ==
  \E a \in {analyze(text, EMOJI_RE)} :
     /\ Record("analyze", text, a.result)
     /\ EMOJI_RE' = a.lastIndex
     /\ UNCHANGED EMOJI_REGEX

CompilerNext ==
  \/ \E source \in Sources : Parse(source)
  \/ \E ast \in Documents : Validate(ast)
  \/ \E ast \in Renderable : Generate(ast)
  \/ \E source \in Sources : Compile(source)
  \/ \E source \in Sources : ValidateSource(source)

AnalyzerNext == \E text \in Texts : Analyze(text)

\* The calls on the compiler instance postlang.
Spec == Init /\ [][CompilerNext]_vars

\* The calls on the analyzer instance.
AnalyzerSpec == Init /\ [][AnalyzerNext]_vars

(***************************************************************************)
(* The properties.  They read the last call made: its operation call.op,   *)
(* its argument call.arg and its result call.result.                       *)
(***************************************************************************)
Has(errors, e) == \E i \in 1..Len(errors) : errors[i] = e

Range(xs) == {xs[i] : i \in 1..Len(xs)}

LastLine(text) == LET lines == split[text, NL] IN lines[Len(lines)]

\* The texts of a document that the style rules are stated for: the title,
\* the claim, the insight, the context and the evidence contexts.
StyledTexts(d) ==
  Range(d.title) \cup Range(d.claim) \cup Range(d.insight) \cup Range(d.context)
    \cup {d.evidence[i].context : i \in 1..Len(d.evidence)}

\* The texts of a document the style rules are not stated for: the
\* credential and the title, url and credibility of the source.
UnstyledTexts(d) ==
  Range(d.credential)
    \cup (IF IsSome(d.source)
            THEN {d.source[1].title, d.source[1].url} \cup Range(d.source[1].credibility)
            ELSE {})

\* Every text parse stores in a document.
ParsedTexts(d) ==
  StyledTexts(d) \cup UnstyledTexts(d) \cup {d.evidence[i].value : i \in 1..Len(d.evidence)}

ContainsEmoji(d) == \E t \in StyledTexts(d) : EmojiIndices[t] # {}

\* C1: compiling the same source twice in a row on the same compiler
\* instance yields the same result both times (success flag, output, errors
\* and warnings).
C1_CompileTwiceSameResult ==
  call.op = "compile" /\ IsSome(prev) => call.result = prev[1]

\* C2: whatever calls were made before, validate on a document with an
\* emoji in its title, claim, insight, context or an evidence context
\* reports 'Emojis are not allowed', and compile of a source with such a
\* document does not succeed.
C2_EmojiAlwaysRejected ==
  /\ call.op = "validate" /\ ContainsEmoji(call.arg)
       => Has(call.result.errors, "Emojis are not allowed")
  /\ call.op = "compile" /\ ContainsEmoji(Parsed[call.arg].ast)
       => ~call.result.success

\* C3: the result of analyze(text) is a function of text alone: it is the
\* result the first call on a fresh analyzer gives, whatever analyze calls
\* were made before.
C3_AnalyzeStateless ==
  call.op = "analyze" => call.result = analyze(call.arg, 0).result

\* C4: parse accepts the minimal post, whose source line has a title and a
\* url only, without error, and compile turns it into a successful output
\* whose last line is example.com.
C4_MinimalPostCompiles ==
  /\ call.op = "parse" /\ call.arg = MinimalSource => Len(call.result.errors) = 0
  /\ call.op = "compile" /\ call.arg = MinimalSource
       => /\ call.result.success
          /\ LastLine(call.result.output[1]) = "example.com"

\* C5 as stated: analyze of the generator's output for the minimal valid
\* post yields valid = true and score = 100.
C5_MinimalPostScores100 ==
  call.op = "analyze" /\ call.arg = generate(MinimalDoc)
    => call.result.valid /\ call.result.score = 100

\* C5, amended: analyze of the generator's output for the minimal valid
\* post yields valid = true and score = 95, with the one warning that the
\* post has a single evidence point.
C5_MinimalPostScores95 ==
  call.op = "analyze" /\ call.arg = generate(MinimalDoc)
    => /\ call.result.valid
       /\ call.result.score = 95
       /\ call.result.warnings = <<"Only 1 evidence point - consider adding more">>

C5_Witness ==
  /\ call.op = "analyze"
  /\ call.arg = generate(MinimalDoc)
  /\ call.result.structure.evidenceCount = 1

\* C6: validate reports 'Missing # (title)', 'Missing ! (claim)',
\* 'Missing + (evidence)', 'Missing > (insight)' and 'Missing @ (source)'
\* for exactly those of the title, the claim, the evidence (no item), the
\* insight and the source that the document lacks.
C6_MissingExactlyAbsent ==
  call.op = "validate"
    => /\ Has(call.result.errors, "Missing # (title)") <=> ~IsSome(call.arg.title)
       /\ Has(call.result.errors, "Missing ! (claim)") <=> ~IsSome(call.arg.claim)
       /\ Has(call.result.errors, "Missing + (evidence)") <=> Len(call.arg.evidence) = 0
       /\ Has(call.result.errors, "Missing > (insight)") <=> ~IsSome(call.arg.insight)
       /\ Has(call.result.errors, "Missing @ (source)") <=> ~IsSome(call.arg.source)

C6_Witness ==
  /\ call.op = "validate"
  /\ ~IsSome(call.arg.title) /\ ~IsSome(call.arg.source)
  /\ IsSome(call.arg.claim) /\ IsSome(call.arg.insight) /\ Len(call.arg.evidence) > 0
  /\ call.result.errors = <<"Missing # (title)", "Missing @ (source)">>

\* The lines of a source that are limit directives naming key: '^', a
\* word that is key in any letter case, and a number.
DirectiveLines(source, key) ==
  LET lines == split[source, NL]
  IN {i \in 1..Len(lines) :
        LET m == matchLimit[trim[lines[i]]] IN m.ok /\ toLowerCase[m.key] = key}

\* The number of the last directive of the source that names key, or the
\* default when none does.
DeclaredLimit(source, key) ==
  LET at == DirectiveLines(source, key)
  IN IF at = {} THEN DEFAULT_LIMITS[key]
     ELSE matchLimit[trim[split[source, NL][Max(at)]]].value

OutputExceeds(total, has) ==
  "Output exceeds " \o ToString(total) \o " chars (has " \o ToString(has) \o ")"

\* C7: the effective limit of each key is the number of the last directive
\* of the source that names it, or its default; compile checks the length
\* of the output against that limit for total, so that a post of more than
\* 500 and at most 700 characters fails under '^ total 500' for exceeding
\* 500; a source line '^ foo 10' yields no error and changes no limit.
C7_LastDirectiveWins ==
  /\ call.op = "parse"
       => /\ \A key \in LIMIT_KEYS :
               effectiveLimits(call.result.ast)[key] = DeclaredLimit(call.arg, key)
          /\ \A n \in 1..Len(split[call.arg, NL]) :
               startsWith[trim[split[call.arg, NL][n]], "^"]
                 => \A i \in 1..Len(call.result.errors) :
                      ~startsWith[call.result.errors[i], "Line " \o ToString(n) \o ":"]
  /\ call.op = "compile" /\ Len(Parsed[call.arg].errors) = 0
       => LET total == DeclaredLimit(call.arg, "total")
              has == Len(generate(Parsed[call.arg].ast))
          IN /\ call.result.success => has <= total
             /\ Len(validate(Parsed[call.arg].ast, 0).errors) = 0
                  /\ ~ContainsEmoji(Parsed[call.arg].ast) /\ has > total
                  => call.result.errors = <<OutputExceeds(total, has)>>

C7_Witness ==
  /\ call.op = "compile"
  /\ DirectiveLines(call.arg, "total") # {}
  /\ DeclaredLimit(call.arg, "total") = 500
  /\ Len(call.result.errors) = 1
  /\ startsWith[call.result.errors[1], "Output exceeds 500 chars"]

\* C8: validate reports '+ limited to 5 items maximum' exactly when the
\* document has more than 5 evidence items and 'Missing + (evidence)'
\* exactly when it has none, whatever limits the document configures.
C8_EvidenceCountRule ==
  call.op = "validate"
    => /\ Has(call.result.errors, "+ limited to 5 items maximum")
            <=> Len(call.arg.evidence) > 5
       /\ Has(call.result.errors, "Missing + (evidence)")
            <=> Len(call.arg.evidence) = 0

C8_Witness ==
  /\ call.op = "validate"
  /\ Len(call.arg.evidence) = 6
  /\ IsSome(call.arg.limits)
  /\ Has(call.result.errors, "+ limited to 5 items maximum")
  /\ ~Has(call.result.errors, "Missing + (evidence)")

BannedError(p) == "Banned phrase: \"" \o p \o "\""

\* The concatenation the style checks are stated for: the title, the claim,
\* the insight, the context and the evidence contexts, in this order,
\* separated by a space, in lower case.
StyledText(d) ==
  toLowerCase[join[d.title \o d.claim \o d.insight \o d.context
                     \o [i \in 1..Len(d.evidence) |-> d.evidence[i].context], " "]]

C10_ExclamationNeverCompiles ==
  call.op = "compile"
    => /\ (\E t \in ParsedTexts(Parsed[call.arg].ast) : includes[t, "!"])
            => ~call.result.success
       /\ call.result.success => ~includes[call.result.output[1], "!"]

\* An error of parse: 'Line N: Invalid ...'.
IsParseError(e) == startsWith[e, "Line "]

\* C11: when parse reports an error, compile returns success = false with
\* exactly the errors of parse, no warning and no output, and validate(source)
\* returns exactly them too, the validator not being run (the emoji
\* expression is left as it was); an error that is not one of parse appears
\* in a result only when parse reported none.
C11_ParseErrorsAlone ==
  /\ call.op \in {"compile", "validateSource"} /\ Len(Parsed[call.arg].errors) > 0
       => /\ call.result.errors = Parsed[call.arg].errors
          /\ call.result.warnings = << >>
          /\ EMOJI_REGEX = call.lastIndex
          /\ call.op = "compile" => ~call.result.success /\ call.result.output = None
          /\ call.op = "validateSource" => ~call.result.valid
  /\ call.op \in {"compile", "validateSource"}
       /\ (\E i \in 1..Len(call.result.errors) : ~IsParseError(call.result.errors[i]))
       => Len(Parsed[call.arg].errors) = 0

C11_Witness ==
  /\ call.op = "compile"
  /\ Len(Parsed[call.arg].errors) > 0
  /\ ContainsEmoji(Parsed[call.arg].ast)
  /\ call.result.errors = Parsed[call.arg].errors
  /\ call.lastIndex > 0

\* The lines of a source, trimmed, and the numbers of those that begin with
\* the symbol c.
TrimmedLines ==
  [s \in Sources |-> LET lines == split[s, NL] IN [n \in 1..Len(lines) |-> trim[lines[n]]]]

LineAt(source, n) == TrimmedLines[source][n]

\* The first character of a line that is neither blank nor a comment.
Symbol(line) == IF line = "" \/ startsWith[line, "//"] THEN "" ELSE Ch(line, 1)

LinesWith(source, c) ==
  {n \in 1..Len(TrimmedLines[source]) : Symbol(LineAt(source, n)) = c}

\* Whether a line matches the grammar of the directive it begins with.
MatchesGrammar(line) ==
  IF Symbol(line) = "+" THEN matchEvidence[line].ok
  ELSE IF Symbol(line) = "@" THEN matchSource[line].ok
  ELSE IF Symbol(line) = "^" THEN matchLimit[line].ok
  ELSE matchQuoted[line].ok

MatchingLines(source, c) ==
  {n \in LinesWith(source, c) : MatchesGrammar(LineAt(source, n))}

\* The lines of a required directive that fail its grammar.
BadLines(source) ==
  UNION {LinesWith(source, c) \ MatchingLines(source, c) : c \in {"#", "!", "+", ">", "@"}}

\* The k-th number of a set of numbers, in increasing order.
Nth(S, k) == CHOOSE n \in S : Cardinality({m \in S : m <= n}) = k

InvalidMessage(n, c) ==
  "Line " \o ToString(n) \o ": Invalid " \o
  (CASE c = "#" -> "title. Use # " \o Q("Your title")
     [] c = "!" -> "claim. Use ! " \o Q("Your claim")
     [] c = "+" -> "evidence. Use + value | " \o Q("context")
     [] c = ">" -> "insight. Use > " \o Q("Your insight")
     [] c = "@" -> "source. Use @ " \o Q("Title") \o " | url | " \o Q("why this source is credible"))

\* C12: parse reports exactly one error 'Line N: Invalid <kind>. Use
\* <template>' for every line of #, !, +, > or @ that fails its grammar, N
\* being the 1-based number of the physical line, in line order, and nothing
\* else; the fields of the valid lines, before and after a bad line, are
\* populated.
C12_ParseNeverAborts ==
  call.op = "parse" =>
    LET bad == BadLines(call.arg)
        errors == call.result.errors
        ast == call.result.ast
    IN /\ Len(errors) = Cardinality(bad)
       /\ \A k \in 1..Len(errors) :
            errors[k] = InvalidMessage(Nth(bad, k), Symbol(LineAt(call.arg, Nth(bad, k))))
       /\ MatchingLines(call.arg, "#") # {} => IsSome(ast.title)
       /\ MatchingLines(call.arg, "!") # {} => IsSome(ast.claim)
       /\ MatchingLines(call.arg, ">") # {} => IsSome(ast.insight)
       /\ MatchingLines(call.arg, "@") # {} => IsSome(ast.source)
       /\ Len(ast.evidence) = Cardinality(MatchingLines(call.arg, "+"))

\* A parse of a source with a blank and a comment line before its first bad
\* line, several bad lines, and valid lines between and after them.
C12_Witness ==
  /\ call.op = "parse"
  /\ Cardinality(BadLines(call.arg)) >= 3
  /\ \E b \in BadLines(call.arg) :
       /\ \E n \in 1..(b - 1) : LineAt(call.arg, n) = ""
       /\ \E n \in 1..(b - 1) : startsWith[LineAt(call.arg, n), "//"]
       /\ \E n \in MatchingLines(call.arg, "!") : n > b
       /\ \E b2 \in BadLines(call.arg) : \E n \in MatchingLines(call.arg, ">") : b2 > n /\ n > b
  /\ IsSome(call.result.ast.claim) /\ IsSome(call.result.ast.insight)
  /\ Len(call.result.errors) = Cardinality(BadLines(call.arg))

\* A line the parser has no directive for, or an optional directive ('?',
\* '*') that fails its grammar.
Ignorable(line) ==
  /\ line # ""
  /\ \/ Ch(line, 1) \in {"?", "*"} /\ ~matchQuoted[line].ok
     \/ Ch(line, 1) \notin {"^", "#", "!", "+", ">", "?", "*", "@"}

\* The source with every such line replaced by an empty line.
Blanked(source) ==
  LET lines == split[source, NL]
  IN join[[n \in 1..Len(lines) |-> IF Ignorable(trim[lines[n]]) THEN "" ELSE lines[n]], NL]

IgnorableLines(source) ==
  {n \in 1..Len(TrimmedLines[source]) : Ignorable(LineAt(source, n))}

\* C13: a '?' or '*' line that fails its grammar, and a line that begins
\* with none of ^ # ! + > ? * @, adds no error and changes no field: parse
\* returns what it returns for the source without these lines.
C13_OptionalMismatchIgnored ==
  call.op = "parse" => call.result = parse(Blanked(call.arg))

\* A parse of a source with a mismatching '?' line after a matching one, a
\* mismatching '*' line and a line of an unknown symbol.
C13_Witness ==
  /\ call.op = "parse"
  /\ \E n \in IgnorableLines(call.arg) :
       /\ Ch(LineAt(call.arg, n), 1) = "?"
       /\ \E m \in MatchingLines(call.arg, "?") : m < n
  /\ \E n \in IgnorableLines(call.arg) : Ch(LineAt(call.arg, n), 1) = "*"
  /\ \E n \in IgnorableLines(call.arg) : Ch(LineAt(call.arg, n), 1) \notin {"?", "*", "/"}
  /\ call.result.errors = << >>
  /\ call.result.ast.context = Some("Context")

\* The errors of the rules a document violates: required fields, title,
\* claim, evidence and insight rules, and the style rules on the scanned
\* fields (emoji, banned phrases, exclamation marks).
ViolationsButEmoji(d) ==
  LET limits == effectiveLimits(d)
      text == toLowerCase[join[scannedFields(d), " "]]
  IN {"Missing # (title)" : x \in {1} \cap (IF Truthy(d.title) THEN {} ELSE {1})}
       \cup {"Missing ! (claim)" : x \in {1} \cap (IF Truthy(d.claim) THEN {} ELSE {1})}
       \cup {"Missing + (evidence)" : x \in {1} \cap (IF Len(d.evidence) > 0 THEN {} ELSE {1})}
       \cup {"Missing > (insight)" : x \in {1} \cap (IF Truthy(d.insight) THEN {} ELSE {1})}
       \cup {"Missing @ (source)" : x \in {1} \cap (IF IsSome(d.source) THEN {} ELSE {1})}
       \cup {Exceeds("#", limits.title, Len(t)) : t \in {t \in Range(d.title) : Len(t) > limits.title}}
       \cup {"# cannot be a question" : t \in {t \in Range(d.title) : endsWith[t, "?"]}}
       \cup {"# cannot contain exclamation marks" : t \in {t \in Range(d.title) : includes[t, "!"]}}
       \cup {Exceeds("!", limits.claim, Len(t)) : t \in {t \in Range(d.claim) : Len(t) > limits.claim}}
       \cup {"+ limited to 5 items maximum" : x \in {1} \cap (IF Len(d.evidence) > 5 THEN {1} ELSE {})}
       \cup {Exceeds("+ item " \o ToString(i), limits.evidence,
                     Len(d.evidence[i].value) + 1 + Len(d.evidence[i].context)) :
               i \in {i \in 1..Len(d.evidence) :
                        Len(d.evidence[i].value) + 1 + Len(d.evidence[i].context) > limits.evidence}}
       \cup {Exceeds(">", limits.insight, Len(t)) : t \in {t \in Range(d.insight) : Len(t) > limits.insight}}
       \cup {"Banned phrase: " \o Q(BANNED_PHRASES[i]) :
               i \in {i \in 1..Len(BANNED_PHRASES) : includes[text, toLowerCase[BANNED_PHRASES[i]]]}}
       \cup {"Exclamation marks not allowed (found " \o ToString(CountChar[text, "!"]) \o ")" :
               x \in {1} \cap (IF CountChar[text, "!"] > 0 THEN {1} ELSE {})}

Violations(d) ==
  ViolationsButEmoji(d) \cup (IF ContainsEmoji(d) THEN {"Emojis are not allowed"} ELSE {})

\* C14: the error list of validate contains the error of each rule the
\* document violates, whatever other rules it violates; the otherwise-valid
\* post with the title 'Is this a game changer?' gets '# cannot be a
\* question' and 'Banned phrase: "game changer"'.
C14_EveryViolationCollected ==
  call.op = "validate" => Violations(call.arg) \subseteq Range(call.result.errors)

\* The same for every rule but the emoji rule: these errors are there
\* whatever the state of EMOJI_REGEX.
C14_EveryViolationButEmojiCollected ==
  call.op = "validate" => Range(call.result.errors) \ {"Emojis are not allowed"} = ViolationsButEmoji(call.arg)

\* A validate of the post with the question title, and of a document that
\* breaks ten rules.
C14_QuestionTitle ==
  /\ call.op = "validate"
  /\ call.arg = Parsed[QuestionSource].ast
  /\ Range(call.result.errors) = {"# cannot be a question", "Banned phrase: " \o Q("game changer")}

C14_ManyViolations ==
  /\ call.op = "validate"
  /\ Cardinality(ViolationsButEmoji(call.arg)) >= 10
  /\ ViolationsButEmoji(call.arg) \subseteq Range(call.result.errors)
  /\ ContainsEmoji(call.arg)
  /\ ~Has(call.result.errors, "Emojis are not allowed")

\* A document whose context is longer than the effective context limit, and
\* the warning for it.
ContextOver(d) == Truthy(d.context) /\ Len(d.context[1]) > effectiveLimits(d).context

ContextWarning(d) ==
  "? exceeds " \o ToString(effectiveLimits(d).context) \o " chars (has "
    \o ToString(Len(d.context[1])) \o ")"

\* What the claim says of the errors and warnings returned for document d.
ContextAdvisory(d, errors, warnings) ==
  /\ \A i \in 1..Len(errors) : ~startsWith[errors[i], "? exceeds"]
  /\ ContextOver(d) => Has(warnings, ContextWarning(d))
  /\ ~ContextOver(d) => warnings = << >>

\* C15: a context over its limit gives the warning '? exceeds N chars (has
\* M)' and no error, in validate and in compile, whether compile succeeds,
\* fails at validation or fails at the total-length check; a failed compile
\* always has an error other than one about the context.
C15_ContextIsWarning ==
  /\ call.op = "validate" => ContextAdvisory(call.arg, call.result.errors, call.result.warnings)
  /\ call.op = "compile" /\ Len(Parsed[call.arg].errors) = 0
       => /\ ContextAdvisory(Parsed[call.arg].ast, call.result.errors, call.result.warnings)
          /\ call.result.success <=> call.result.errors = << >>

\* A compile that fails at validation and returns the context warning.
C15_Witness ==
  /\ call.op = "compile"
  /\ ContextOver(Parsed[call.arg].ast)
  /\ ~call.result.success
  /\ Has(call.result.errors, "Missing @ (source)")
  /\ call.result.warnings = <<"? exceeds 5 chars (has 7)">>

\* A compile that succeeds with the warning, and one that fails at the
\* total-length check with it.
C15_SucceedsWithWarning ==
  /\ call.op = "compile"
  /\ call.result.success
  /\ call.result.warnings = <<"? exceeds 5 chars (has 7)">>

C15_TotalFailureWithWarning ==
  /\ call.op = "compile"
  /\ ~call.result.success
  /\ Len(call.result.errors) = 1 /\ startsWith[call.result.errors[1], "Output exceeds"]
  /\ call.result.warnings = <<"? exceeds 5 chars (has 7)">>

\* C16: when parse and validate report no error, compile fails, with the
\* one error 'Output exceeds T chars (has L)' and no output, exactly when
\* the generated text is longer than the effective total limit T, and
\* succeeds with that text otherwise (L = T included); every successful
\* output has at most T characters.
C16_TotalLengthCheck ==
  call.op = "compile" /\ Len(Parsed[call.arg].errors) = 0
    => LET ast == Parsed[call.arg].ast
           T == DeclaredLimit(call.arg, "total")
       IN /\ call.result.success => Len(call.result.output[1]) <= T
          /\ Len(validate(ast, call.lastIndex).errors) = 0
               => LET L == Len(generate(ast))
                  IN /\ L > T <=> /\ ~call.result.success
                                  /\ call.result.errors = <<OutputExceeds(T, L)>>
                                  /\ call.result.output = None
                     /\ L <= T <=> /\ call.result.success
                                   /\ call.result.errors = << >>
                                   /\ call.result.output = Some(generate(ast))

\* A compile whose output has exactly as many characters as the total limit
\* a directive of the source sets.
C16_Witness ==
  /\ call.op = "compile"
  /\ DirectiveLines(call.arg, "total") # {}
  /\ call.result.success
  /\ Len(call.result.output[1]) = DeclaredLimit(call.arg, "total")

\* A compile whose output is one character over the limit.
C16_OneOver ==
  /\ call.op = "compile"
  /\ call.result.errors = <<"Output exceeds 95 chars (has 96)">>

\* s without the prefix p when it begins with p.
WithoutPrefix(s, p) == IF startsWith[s, p] THEN SubSeq(s, Len(p) + 1, Len(s)) ELSE s

\* The canonical rendering of a document, line by line.
CanonicalLines(d) ==
  <<d.title[1] \o ".", "">>
    \o (IF Truthy(d.context) THEN <<d.context[1], "">> ELSE << >>)
    \o <<d.claim[1] \o ".", "">>
    \o (IF Len(d.evidence) > 0
          THEN <<"Results:">>
                 \o [i \in 1..Len(d.evidence) |-> "- " \o d.evidence[i].value \o " " \o d.evidence[i].context]
                 \o <<"">>
          ELSE << >>)
    \o <<d.insight[1] \o ".", "">>
    \o (IF Truthy(d.credential) THEN <<"[" \o d.credential[1] \o "]", "">> ELSE << >>)
    \o <<"Source: " \o d.source[1].title>>
    \o (IF Truthy(d.source[1].credibility) THEN <<"[" \o d.source[1].credibility[1] \o "]">> ELSE << >>)
    \o <<WithoutPrefix(IF startsWith[d.source[1].url, "https://"]
                         THEN WithoutPrefix(d.source[1].url, "https://")
                         ELSE WithoutPrefix(d.source[1].url, "http://"), "www.")>>

\* C17: generate returns the canonical rendering of the document: title,
\* context if present, claim, the 'Results:' list, insight, '[credential]'
\* if present, 'Source: <title>', a '[credibility]' line only if the source
\* has a credibility, and the URL without its scheme and leading 'www.'.
C17_CanonicalRendering ==
  call.op = "generate" => split[call.result, NL] = CanonicalLines(call.arg)

\* The same for the documents whose source has a credibility.
C17_CanonicalWithCredibility ==
  call.op = "generate" /\ IsSome(call.arg.source[1].credibility)
    => split[call.result, NL] = CanonicalLines(call.arg)

\* A generate of a document with context, credential and a URL with scheme
\* and 'www.', and one of the document without credibility.
C17_UrlStripped ==
  /\ call.op = "generate"
  /\ call.arg.source[1].url = "http://www.example.com/www.a"
  /\ LastLine(call.result) = "example.com/www.a"
  /\ Has(split[call.result, NL], "[Engineer]")

C17_UndefinedCredibility ==
  /\ call.op = "generate"
  /\ ~IsSome(call.arg.source[1].credibility)
  /\ Has(split[call.result, NL], "[undefined]")

\* The penalty of an issue of analyze, by its message.
IssuePenalty(issue) ==
  CASE issue = "First line too long for a title (>100 chars)" -> 10
    [] issue = "No title detected" -> 15
    [] issue = "No evidence/data points detected" -> 20
    [] issue = "No source/attribution detected" -> 15
    [] issue = "Post too short - no clear claim detected" -> 10
    [] startsWith[issue, "Contains banned phrase: "] -> 10
    [] issue = "Contains emojis" -> 10
    [] endsWith[issue, " exclamation mark(s)"] ->
         5 * parseInt[SubSeq(issue, Len("Contains ") + 1, Len(issue) - Len(" exclamation mark(s)"))]
    [] issue = "Title is a question (avoid clickbait)" -> 10

RECURSIVE SumOfPenalties(_)
SumOfPenalties(issues) ==
  IF issues = << >> THEN 0 ELSE IssuePenalty(Head(issues)) + SumOfPenalties(Tail(issues))

\* 100 minus 5 for each warning and the penalty of each issue.
RawScore(result) == 100 - 5 * Len(result.warnings) - SumOfPenalties(result.issues)

\* C18: the score of analyze is 100 minus the sum of the penalties of the
\* issues and warnings it reports, brought back into [0, 100]; valid is
\* true exactly when there is no issue, whatever the warnings.
C18_ScoreClampedValidIffNoIssue ==
  call.op = "analyze"
    => /\ call.result.score \in 0..100
       /\ call.result.score = Max({0, Min({100, RawScore(call.result)})})
       /\ call.result.valid <=> call.result.issues = << >>

\* An analyze whose penalties sum to more than 100, with a score of 0.
C18_Witness ==
  /\ call.op = "analyze"
  /\ RawScore(call.result) < 0
  /\ call.result.score = 0
  /\ ~call.result.valid

\* An analyze with warnings and no issue: valid, with a score below 100.
C18_WarningsOnly ==
  /\ call.op = "analyze"
  /\ call.result.issues = << >> /\ Len(call.result.warnings) = 2
  /\ call.result.valid
  /\ call.result.score = 90

\* C19: every entry of the limits of a parsed document has one of the six
\* recognized names and a positive integer value.
C19_LimitsRecognizedAndPositive ==
  call.op = "parse" /\ IsSome(call.result.ast.limits)
    => \A key \in DOMAIN call.result.ast.limits[1] :
         /\ key \in {"title", "claim", "evidence", "insight", "context", "total"}
         /\ call.result.ast.limits[1][key] \in Nat \ {0}

\* The same without the sign: the names are recognized and the values are
\* natural numbers.
C19_LimitsRecognizedAndNatural ==
  call.op = "parse" /\ IsSome(call.result.ast.limits)
    => \A key \in DOMAIN call.result.ast.limits[1] :
         /\ key \in {"title", "claim", "evidence", "insight", "context", "total"}
         /\ call.result.ast.limits[1][key] \in Nat

\* A parse that stores a limit of zero, and a compile that fails for it.
C19_ZeroLimitStored ==
  /\ call.op = "parse"
  /\ call.result.errors = << >>
  /\ call.result.ast.limits = Some([title |-> 0])

C19_ZeroLimitCompile ==
  /\ call.op = "compile"
  /\ call.result.errors = <<"# exceeds 0 chars (has 5)">>

\* The value of the last line of the source that matches the grammar of the
\* directive c, if any.
LastQuoted(source, c) ==
  IF MatchingLines(source, c) = {} THEN None
  ELSE Some(matchQuoted[LineAt(source, Max(MatchingLines(source, c)))].text)

LastSource(source) ==
  IF MatchingLines(source, "@") = {} THEN None
  ELSE LET m == matchSource[LineAt(source, Max(MatchingLines(source, "@")))]
       IN Some([title |-> m.title, url |-> m.url, credibility |-> Some(m.credibility)])

\* The item of the k-th matching '+' line.
EvidenceOf(source, k) ==
  LET m == matchEvidence[LineAt(source, Nth(MatchingLines(source, "+"), k))]
  IN [value |-> trim[m.value], context |-> m.context]

\* C20: each singular field of the document parse returns holds the value
\* of the last line that matches its directive's grammar (and is absent
\* when none does), and the evidence holds one item per matching '+' line,
\* in line order, repeated lines included.
C20_FileOrderLastWins ==
  call.op = "parse"
    => LET ast == call.result.ast
       IN /\ ast.title = LastQuoted(call.arg, "#")
          /\ ast.claim = LastQuoted(call.arg, "!")
          /\ ast.insight = LastQuoted(call.arg, ">")
          /\ ast.context = LastQuoted(call.arg, "?")
          /\ ast.credential = LastQuoted(call.arg, "*")
          /\ ast.source = LastSource(call.arg)
          /\ Len(ast.evidence) = Cardinality(MatchingLines(call.arg, "+"))
          /\ \A k \in 1..Len(ast.evidence) : ast.evidence[k] = EvidenceOf(call.arg, k)

\* A parse of a source with two matching title lines followed by one that
\* fails, two sources, and the same evidence line three times.
C20_Witness ==
  /\ call.op = "parse"
  /\ Cardinality(MatchingLines(call.arg, "#")) = 2
  /\ \E n \in BadLines(call.arg) : n > Max(MatchingLines(call.arg, "#"))
  /\ call.result.ast.title = Some("Title two")
  /\ call.result.ast.source[1].title = "Second"
  /\ Len(call.result.ast.evidence) = 4
  /\ call.result.ast.evidence[1] = call.result.ast.evidence[3]
  /\ call.result.ast.evidence[3] = call.result.ast.evidence[4]

\* The stage at which a compile stopped: the errors are those of parse,
\* the one of the total-length check, or else those of validate.
FailedAt(source, result) ==
  IF result.success THEN "none"
  ELSE IF Len(Parsed[source].errors) > 0 THEN "parse"
  ELSE IF Len(result.errors) = 1 /\ startsWith[result.errors[1], "Output exceeds "] THEN "total"
  ELSE "validation"

\* C21: in every result of compile, success is true exactly when errors is
\* empty and exactly when output is present; a compile that fails, at the
\* parse, validation or total-length stage, has at least one error and no
\* output.
C21_SuccessIffNoErrorIffOutput ==
  call.op = "compile"
    => /\ call.result.success \in BOOLEAN
       /\ call.result.success <=> Len(call.result.errors) = 0
       /\ call.result.success <=> IsSome(call.result.output)
       /\ ~call.result.success => Len(call.result.errors) >= 1 /\ call.result.output = None

\* A compile that fails at the total-length check, with the one error and
\* no output.
C21_Witness ==
  /\ call.op = "compile"
  /\ FailedAt(call.arg, call.result) = "total"
  /\ Len(call.result.errors) = 1
  /\ call.result.output = None

\* Compiles that fail at the parse stage and at the validation stage, and
\* one that succeeds.
C21_FailsAtParse ==
  /\ call.op = "compile"
  /\ FailedAt(call.arg, call.result) = "parse"
  /\ Len(call.result.errors) >= 1 /\ call.result.output = None

C21_FailsAtValidation ==
  /\ call.op = "compile"
  /\ FailedAt(call.arg, call.result) = "validation"
  /\ Len(call.result.errors) >= 1 /\ call.result.output = None

C21_Succeeds ==
  /\ call.op = "compile"
  /\ call.result.success /\ call.result.errors = << >> /\ IsSome(call.result.output)

\* The banned phrases validate reports for a document.
ReportedPhrases(errors) == {p \in Range(BANNED_PHRASES) : Has(errors, BannedError(p))}

\* C22: validate reports 'Banned phrase: "p"' only if one scanned field by
\* itself (the title, the claim, the insight, the context or one evidence
\* context) contains p, in any letter case; a phrase formed only across the
\* boundary between two fields is not reported.
C22_BannedPhraseWithinOneField ==
  call.op = "validate"
    => \A p \in ReportedPhrases(call.result.errors) :
         \E t \in StyledTexts(call.arg) : includes[toLowerCase[t], toLowerCase[p]]

\* The same for the text the fields form when joined by a space: a phrase
\* is reported exactly when that text contains it.
C22_BannedPhraseWithinJoinedText ==
  call.op = "validate"
    => ReportedPhrases(call.result.errors)
         = {p \in Range(BANNED_PHRASES) : includes[StyledText(call.arg), toLowerCase[p]]}

\* A validate of the post whose title ends in 'game' and whose claim begins
\* with 'changer': 'game changer' is reported and is in no field.
C22_ReportedAcrossFields ==
  /\ call.op = "validate"
  /\ call.arg.title = Some("A new game") /\ call.arg.claim = Some("Changer of habits")
  /\ call.arg.credential = None
  /\ call.result.errors = <<BannedError("game changer")>>
  /\ \A t \in ParsedTexts(call.arg) : ~includes[toLowerCase[t], "game changer"]
====
